---- MODULE Spec2Model ----
(***************************************************************************)
(* fake-compose: the orchestration engine.                                 *)
(*                                                                         *)
(*   internal/executor/executor.go   Executor: Up, Down, startService,     *)
(*                                   stopService, rollback, orderServices  *)
(*   pkg/lifecycle/manager.go        Manager: StartService, StopService,   *)
(*                                   the per-service ServiceState          *)
(*   pkg/hooks/executor.go           ExecuteHooks (a batch of hooks)       *)
(*   pkg/container                   the container backend                 *)
(*                                                                         *)
(* Go ranges over a map in an unspecified order; every `range` over a map  *)
(* is modelled as a choice among all orders.  A backend call or a hook     *)
(* batch may fail: each such call is a choice between success and failure, *)
(* failures being counted against MaxFaults.                               *)
(***************************************************************************)
EXTENDS Integers, Sequences, FiniteSets, TLC

\* ------------------------------------------------------------------ bounds

\* Up/Down invocations on one Executor in one behaviour.
MaxCalls == 2

\* Failing backend calls and hook batches in one behaviour.
MaxFaults == 2

\* dependsOn entries per service in the graphs of OrderSpec.
MaxDeps == 2

\* StartService/StopService calls on one lifecycle Manager in one behaviour
\* of LifecycleSpec.
MaxManagerCalls == 3

\* Hooks in one list, and retries of one hook, in the lists of HookSpec.
MaxHooks == 3

MaxRetries == 2

\* ------------------------------------------------------------- the inputs

Names == {"db", "api", "web"}

\* A dependsOn target that names no service of the spec.
Ghost == "ghost"

NoHooks == [preStart |-> <<>>, postStart |-> <<>>, preStop |-> <<>>, postStop |-> <<>>]

\* compose.Service, as far as the engine reads it.  db has init containers,
\* api has hooks in the four start/stop slots and one init container, web has
\* post containers (one on success with a waitFor delay, one on failure).
Service(name, deps) ==
    [dependsOn      |-> deps,
     initContainers |-> IF name = "db" THEN <<"migrate", "seed">>
                        ELSE IF name = "api" THEN <<"warm">> ELSE <<>>,
     postContainers |-> IF name = "web"
                        THEN << [name |-> "notify",  waitFor |-> TRUE,  onSuccess |-> TRUE,  onFailure |-> FALSE],
                                [name |-> "cleanup", waitFor |-> FALSE, onSuccess |-> FALSE, onFailure |-> TRUE] >>
                        ELSE <<>>,
     hooks          |-> IF name = "api"
                        THEN [preStart  |-> << [name |-> "h-pre-start",  retries |-> 0] >>,
                              postStart |-> << [name |-> "h-post-start", retries |-> 1] >>,
                              preStop   |-> << [name |-> "h-pre-stop",   retries |-> 0] >>,
                              postStop  |-> << [name |-> "h-post-stop",  retries |-> 0] >>]
                        ELSE NoHooks]

\* ComposeFile.Services built from a dependency graph (service -> dependsOn).
MkServices(g) == [n \in DOMAIN g |-> Service(n, g[n])]

\* The dependency graphs of Spec: chains, a fork, a join, independent
\* services, a single service, a cycle, a self-dependency, an absent target.
Graphs ==
    { [n \in {"db"} |-> {}],
      [n \in {"db", "api"} |-> {}],
      [n \in {"db", "api"} |-> IF n = "api" THEN {"db"} ELSE {}],
      [n \in {"db", "api"} |-> IF n = "db" THEN {"api"} ELSE {}],
      [n \in Names |-> IF n = "api" THEN {"db"} ELSE IF n = "web" THEN {"api"} ELSE {}],
      [n \in Names |-> IF n = "api" THEN {"web"} ELSE IF n = "db" THEN {"api"} ELSE {}],
      [n \in Names |-> IF n = "db" THEN {} ELSE {"db"}],
      [n \in Names |-> IF n = "web" THEN {"db", "api"} ELSE {}],
      [n \in {"db", "api"} |-> IF n = "db" THEN {"api"} ELSE {"db"}],
      [n \in {"web"} |-> {"web"}],
      [n \in {"web", "db"} |-> IF n = "web" THEN {Ghost} ELSE {}] }

\* Every graph over a non-empty subset of Names, each service depending on
\* at most MaxDeps names among the services and Ghost.
AllGraphs ==
    UNION { [S -> {D \in SUBSET (S \cup {Ghost}) : Cardinality(D) <= MaxDeps}]
            : S \in (SUBSET Names) \ {{}} }

\* ------------------------------------------------------------------ state

VARIABLES
    compose,          \* ComposeFile.Services: name -> Service
    runningServices,  \* Executor.runningServices: name -> container id
    services,         \* lifecycle Manager.services: name -> ServiceState
    containers,       \* the backend: container id -> "created" | "running" | "stopped" | "removed"
    nextId,           \* the id the backend gives the next container it creates
    pc,               \* "idle" | "up" | "rollback" | "down" | "panic" | "resolved"
    ordered,          \* the local `ordered` of Up / Down
    idx,              \* the loop index of Up / Down into ordered
    pending,          \* rollback's local copy `services` of runningServices, not yet ranged over
    startErr,         \* Up's local `err` of the failing startService
    log,              \* what the running (or last) invocation did, in order
    hist,             \* the results of the completed invocations, oldest first
    atCall,           \* runningServices as the running (or last) invocation found it
    faults,           \* failures injected so far
    ctx,              \* the context of the running call: "background" | "live" | "cancelled"
    impl,             \* the ContainerImplementation behind the Manager: "docker" | "stub"
    states,           \* the map a caller got from GetAllServiceStates: name -> pointer
    mu                \* lifecycle Manager.mu: the thread holding it for writing (0: none)
                      \* and the threads holding it for reading

vars == << compose, runningServices, services, containers, nextId, pc, ordered,
           idx, pending, startErr, log, hist, atCall, faults, ctx, impl, states, mu >>

\* ------------------------------------------------------- dependency resolver

\* executor.go:181-206.  st = [visited, result, depth, calls]: the closure's
\* visited and result, the number of frames of visit on the stack and the
\* calls of visit so far (name, depth of the frame, whether the name was
\* not yet visited).  The value is the set of states the traversal can end
\* in, one per order the map ranges can take.
RECURSIVE visit(_, _, _), rangeVisit(_, _, _)

Call(name, st, fresh) == [op |-> "visit", svc |-> name, cid |-> st.depth + 1, arg |-> "", ok |-> fresh]

\* visit entered for a name not yet visited.
enter(name, st) ==
    [st EXCEPT !.visited = @ \cup {name}, !.depth = @ + 1,
               !.calls = Append(@, Call(name, st, TRUE))]

\* visit with the name appended before its dependencies are visited.
visitPreorder(svcs, name, st) ==
    IF name \in st.visited THEN {[st EXCEPT !.calls = Append(@, Call(name, st, FALSE))]}
    ELSE LET st1   == [enter(name, st) EXCEPT !.result = Append(@, name)]
             after == IF name \in DOMAIN svcs
                      THEN rangeVisit(svcs, svcs[name].dependsOn, st1)
                      ELSE {st1}
         IN  { [s EXCEPT !.depth = @ - 1] : s \in after }

\* visit that marks as visited only the names that are services.
visitMarkServicesOnly(svcs, name, st) ==
    IF name \in st.visited THEN {[st EXCEPT !.calls = Append(@, Call(name, st, FALSE))]}
    ELSE IF name \in DOMAIN svcs
         THEN { [s EXCEPT !.result = Append(@, name), !.depth = @ - 1]
                : s \in rangeVisit(svcs, svcs[name].dependsOn, enter(name, st)) }
         ELSE { [st EXCEPT !.calls = Append(@, Call(name, st, TRUE)),
                           !.result = Append(@, name)] }

visit(svcs, name, st) ==
    IF name \in st.visited THEN {[st EXCEPT !.calls = Append(@, Call(name, st, FALSE))]}
    ELSE LET st1   == enter(name, st)
             after == IF name \in DOMAIN svcs
                      THEN rangeVisit(svcs, svcs[name].dependsOn, st1)
                      ELSE {st1}
         IN  { [s EXCEPT !.result = Append(@, name), !.depth = @ - 1] : s \in after }

\* `for x := range m { visit(x) }` over the keys todo of a map, in any order.
rangeVisit(svcs, todo, st) ==
    IF todo = {} THEN {st}
    ELSE UNION { UNION { rangeVisit(svcs, todo \ {d}, s) : s \in visit(svcs, d, st) }
                 : d \in todo }

\* executor.go:182-183, 201-203: the traversal from the keys of the map.
traverse(svcs) ==
    rangeVisit(svcs, DOMAIN svcs, [visited |-> {}, result |-> <<>>, depth |-> 0, calls |-> <<>>])

\* returnResult with the result reversed.
returnResultReversed(st) == [i \in 1..Len(st.result) |-> st.result[Len(st.result) + 1 - i]]

\* executor.go:205: orderServices returns the closure's result.
returnResult(st) == st.result

orderServices(svcs) == { returnResult(s) : s \in traverse(svcs) }

\* ------------------------------------------------------ the machine state

\* The operations below are functions of a record m holding the mutable
\* state they read and write:
\*   svc  Manager.services      run  Executor.runningServices
\*   ctr  the backend's containers   nid  the next container id
\*   log  the events so far     faults  the failures so far
\*   ctx  the context the calls are made with   impl  the backend in use
\* and return the set of outcomes the operation can have.

NoErr == ""

Ev(op, svc, cid, arg, ok) == [op |-> op, svc |-> svc, cid |-> cid, arg |-> arg, ok |-> ok]

Emit(m, e) == [m EXCEPT !.log = Append(@, e)]

\* The outcomes of a call that can fail: TRUE (it succeeds) and, while the
\* fault budget lasts, FALSE.
Try(m) == IF m.faults < MaxFaults THEN {TRUE, FALSE} ELSE {TRUE}

\* A failure that a cancelled context forces is not counted.
Fault(m, ok) == IF ok \/ m.ctx = "cancelled" THEN m ELSE [m EXCEPT !.faults = @ + 1]

\* hooks/executor.go:79, 112, 140: the command, script or request of a hook
\* is bound to the context and fails when the context is cancelled.
hookOutcomes(m) == IF m.ctx = "cancelled" THEN {FALSE} ELSE Try(m)

\* The calls of the Docker client are bound to the context and fail when it
\* is cancelled (docker.go); the StubManager ignores the context and always
\* returns nil (part_001:76-140).
backendOutcomes(m) ==
    IF m.impl = "stub" THEN {TRUE}
    ELSE IF m.ctx = "cancelled" THEN {FALSE} ELSE Try(m)

\* main.go:89-96: cancel(), called at an interrupt signal.
cancel(m) == Emit([m EXCEPT !.ctx = "cancelled"], Ev("cancel", "", 0, "", TRUE))

\* The context may be cancelled while a call is in flight.
Signal(m) == IF m.ctx = "live" THEN {m, cancel(m)} ELSE {m}

\* manager.go:39: a sync.RWMutex that nobody holds.
Unlocked == [writer |-> 0, readers |-> {}]

\* ------------------------------------------------------ hook execution engine

\* hooks/executor.go:31-49.  ExecuteHook is invoked for each hook in list
\* order; a failing hook with retries n is re-invoked up to n times, after a
\* sleep of k seconds before the k-th retry; the first hook still failing
\* ends the batch with an error naming it.  `failed` counts the failed
\* invocations of the current hook.
RECURSIVE ExecuteHooks(_, _, _), retryHook(_, _, _, _, _)

\* hooks/executor.go:44: the error names the hook.
hookError(hook) == "hook " \o hook.name \o " failed"

ExecuteHooks(m, name, hooks) ==
    IF hooks = <<>> THEN {[m |-> m, err |-> NoErr]}
    ELSE retryHook(m, name, Head(hooks), Tail(hooks), 0)

\* retryHook that goes on with the next hook after the last failed retry.
retryHookContinue(m, name, hook, rest, failed) ==
    UNION { LET m1 == Fault(Emit(m, Ev("ExecuteHook", name, failed + 1, hook.name, ok)), ok)
            IN  IF ok \/ failed >= hook.retries THEN ExecuteHooks(m1, name, rest)
                ELSE retryHook(Emit(m1, Ev("Sleep", name, failed + 1, hook.name, TRUE)),
                               name, hook, rest, failed + 1)
            : ok \in hookOutcomes(m) }

\* retryHook with a delay of one second before every retry.
retryHookConstantDelay(m, name, hook, rest, failed) ==
    UNION { LET m1 == Fault(Emit(m, Ev("ExecuteHook", name, failed + 1, hook.name, ok)), ok)
            IN  IF ok THEN ExecuteHooks(m1, name, rest)
                ELSE IF failed < hook.retries
                     THEN retryHook(Emit(m1, Ev("Sleep", name, 1, hook.name, TRUE)),
                                    name, hook, rest, failed + 1)
                     ELSE {[m |-> m1, err |-> hookError(hook)]}
            : ok \in hookOutcomes(m) }

retryHook(m, name, hook, rest, failed) ==
    UNION { LET m1 == Fault(Emit(m, Ev("ExecuteHook", name, failed + 1, hook.name, ok)), ok)
            IN  IF ok THEN ExecuteHooks(m1, name, rest)
                ELSE IF failed < hook.retries
                     THEN retryHook(Emit(m1, Ev("Sleep", name, failed + 1, hook.name, TRUE)),
                                    name, hook, rest, failed + 1)
                     ELSE {[m |-> m1, err |-> hookError(hook)]}
            : ok \in hookOutcomes(m) }

\* hooks/executor.go:175-182; the times and the output are not modelled.
HookResult(hook, ok) ==
    [HookName |-> hook.name, Success |-> ok, Error |-> IF ok THEN NoErr ELSE "failed"]

\* hooks/executor.go:184-206.  One invocation per hook, no retry; the loop
\* breaks after a failing hook whose Retries is 0.
RECURSIVE ExecuteHooksWithResults(_, _, _, _)

\* ExecuteHooksWithResults that breaks after every failing hook.
ExecuteHooksWithResultsFailFast(m, name, hooks, results) ==
    IF hooks = <<>> THEN {[m |-> m, results |-> results]}
    ELSE UNION { LET hook == Head(hooks)
                     m1   == Fault(Emit(m, Ev("ExecuteHook", name, 1, hook.name, ok)), ok)
                     res  == Append(results, HookResult(hook, ok))
                 IN  IF ~ok THEN {[m |-> m1, results |-> res]}
                     ELSE ExecuteHooksWithResults(m1, name, Tail(hooks), res)
                 : ok \in hookOutcomes(m) }

ExecuteHooksWithResults(m, name, hooks, results) ==
    IF hooks = <<>> THEN {[m |-> m, results |-> results]}
    ELSE UNION { LET hook == Head(hooks)
                     m1   == Fault(Emit(m, Ev("ExecuteHook", name, 1, hook.name, ok)), ok)
                     res  == Append(results, HookResult(hook, ok))
                 IN  IF ~ok /\ hook.retries = 0 THEN {[m |-> m1, results |-> res]}
                     ELSE ExecuteHooksWithResults(m1, name, Tail(hooks), res)
                 : ok \in hookOutcomes(m) }

\* ------------------------------------------------------ lifecycle state machine

PhasePreStart  == "pre-start"
PhaseStart     == "start"
PhasePostStart == "post-start"
PhaseRunning   == "running"
PhasePreStop   == "pre-stop"
PhaseStop      == "stop"
PhasePostStop  == "post-stop"
PhaseStopped   == "stopped"

\* manager.go:233-240
updatePhase(m, name, phase) ==
    IF name \in DOMAIN m.svc
    THEN Emit([m EXCEPT !.svc[name].Phase = phase], Ev("phase", name, 0, phase, TRUE))
    ELSE m

\* manager.go:242-248
updateStatus(m, name, status) ==
    IF name \in DOMAIN m.svc
    THEN Emit([m EXCEPT !.svc[name].Status = status], Ev("status", name, 0, status, TRUE))
    ELSE m

\* setError that records nothing.
setErrorUnrecorded(m, name, err) == m

\* manager.go:250-258
setError(m, name, err) ==
    IF name \in DOMAIN m.svc
    THEN Emit([m EXCEPT !.svc[name].Error = err, !.svc[name].Status = "Error"],
              Ev("setError", name, 0, err, TRUE))
    ELSE m

\* manager.go:54-62: a new ServiceState replaces whatever the map held; the
\* event carries the phase of the state it replaced, "" when there was none.
register(m, name) ==
    LET state == [Phase |-> PhasePreStart, Status |-> "Starting", Error |-> NoErr,
                  InitCompleted |-> FALSE, PostCompleted |-> FALSE]
    IN  Emit([m EXCEPT !.svc = [n \in DOMAIN m.svc \cup {name} |->
                                   IF n = name THEN state ELSE m.svc[n]]],
             Ev("register", name, 0,
                IF name \in DOMAIN m.svc THEN m.svc[name].Phase ELSE "", TRUE))

\* manager.go:195-197: the manager's own init-container step does nothing
\* and cannot fail.
RECURSIVE executeInitContainers(_, _, _)
executeInitContainers(m, name, inits) ==
    IF inits = <<>> THEN m
    ELSE executeInitContainers(Emit(m, Ev("executeInitContainer", name, 0, Head(inits), TRUE)),
                               name, Tail(inits))

\* manager.go:142-164
runInitContainers(m, name, service) ==
    IF Len(service.initContainers) = 0 THEN m
    ELSE [executeInitContainers(m, name, service.initContainers)
            EXCEPT !.svc[name].InitCompleted = TRUE]

\* manager.go:200-210: the wait for the waitFor delay of a post container
\* ends when the delay has elapsed or, at once and with the error of the
\* context, when the context is or gets cancelled.  The event tells whether
\* the full delay elapsed (cid 1) and whether the context was still
\* uncancelled at the end (ok).
waitFor(m, name, p) ==
    IF ~p.waitFor THEN {[m |-> m, err |-> NoErr]}
    ELSE { IF c.ctx = "cancelled"
           THEN [m |-> Emit(c, Ev("waitFor", name, 0, p.name, FALSE)), err |-> "context canceled"]
           ELSE [m |-> Emit(c, Ev("waitFor", name, 1, p.name, TRUE)), err |-> NoErr]
           : c \in Signal(m) }

\* manager.go:173-186, 199-213: the post containers whose flag matches are
\* taken in list order; the manager only waits, it runs nothing; the first
\* failing wait ends the loop.
RECURSIVE executePostContainers(_, _, _, _)
executePostContainers(m, name, posts, onSuccess) ==
    IF posts = <<>> THEN {[m |-> m, err |-> NoErr]}
    ELSE LET p         == Head(posts)
             shouldRun == (onSuccess /\ p.onSuccess) \/ (~onSuccess /\ p.onFailure)
             done(x)   == Emit(x.m, Ev("executePostContainer", name,
                                       IF p.waitFor THEN 1 ELSE 0, p.name, x.err = NoErr))
         IN  IF ~shouldRun THEN executePostContainers(m, name, Tail(posts), onSuccess)
             ELSE UNION { IF w.err # NoErr
                          THEN {[m |-> done(w), err |-> "post container failed: " \o w.err]}
                          ELSE executePostContainers(done(w), name, Tail(posts), onSuccess)
                          : w \in waitFor(m, name, p) }

\* manager.go:166-193
runPostContainers(m, name, service, onSuccess) ==
    IF Len(service.postContainers) = 0 THEN {[m |-> m, err |-> NoErr]}
    ELSE { IF r.err # NoErr THEN r
           ELSE [m |-> [r.m EXCEPT !.svc[name].PostCompleted = TRUE], err |-> NoErr]
           : r \in executePostContainers(m, name, service.postContainers, onSuccess) }

\* The return of a call of the lifecycle manager, as an event.
lifecycleReturn(op, name, r) ==
    [m |-> Emit(r.m, Ev(op, name, 0, r.err, r.err = NoErr)), err |-> r.err]

\* StartService that sets status "Running" before the postStart hooks.
StartServiceEarlyRunning(m, name, service) ==
    LET m1 == runInitContainers(register(m, name), name, service)
    IN  { lifecycleReturn("StartService", name, x) : x \in UNION {
          IF r.err # NoErr
          THEN {[m   |-> setError(r.m, name, "pre-start hooks failed: " \o r.err),
                 err |-> "pre-start hooks failed: " \o r.err]}
          ELSE UNION {
                 IF q.err # NoErr
                 THEN {[m   |-> setError(q.m, name, "post-start hooks failed: " \o q.err),
                        err |-> "post-start hooks failed: " \o q.err]}
                 ELSE {[m   |-> updatePhase(pr.m, name, PhaseRunning), err |-> NoErr]
                       : pr \in runPostContainers(q.m, name, service, TRUE)}
                 : q \in ExecuteHooks(updateStatus(updatePhase(updatePhase(r.m, name, PhaseStart),
                                                               name, PhasePostStart),
                                                   name, "Running"),
                                      name, service.hooks.postStart) }
          : r \in ExecuteHooks(m1, name, service.hooks.preStart) } }

\* manager.go:53-94.  The last event is the return, with the error.
StartService(m, name, service) ==
    LET m1 == runInitContainers(register(m, name), name, service)
    IN  { lifecycleReturn("StartService", name, x) : x \in UNION {
          IF r.err # NoErr
          THEN {[m   |-> setError(r.m, name, "pre-start hooks failed: " \o r.err),
                 err |-> "pre-start hooks failed: " \o r.err]}
          ELSE UNION {
                 IF q.err # NoErr
                 THEN {[m   |-> setError(q.m, name, "post-start hooks failed: " \o q.err),
                        err |-> "post-start hooks failed: " \o q.err]}
                 ELSE {[m   |-> updateStatus(updatePhase(pr.m, name, PhaseRunning),
                                             name, "Running"),
                        err |-> NoErr]
                       : pr \in runPostContainers(q.m, name, service, TRUE)}
                 : q \in ExecuteHooks(updatePhase(updatePhase(r.m, name, PhaseStart), name, PhasePostStart),
                                      name, service.hooks.postStart) }
          : r \in ExecuteHooks(m1, name, service.hooks.preStart) } }

\* manager.go:133-137
setStopped(m, name) ==
    Emit([m EXCEPT !.svc[name].Phase = PhaseStopped, !.svc[name].Status = "Stopped"],
         Ev("phase", name, 0, PhaseStopped, TRUE))

\* StopService without the return for a service already in phase Stopped.
StopServiceRerun(m, name, service) ==
    { lifecycleReturn("StopService", name, x) : x \in
    IF name \notin DOMAIN m.svc THEN {[m |-> m, err |-> "service not found"]}
    ELSE UNION {
           UNION { { [m |-> setStopped(pr.m, name), err |-> NoErr]
                     : pr \in runPostContainers(q.m, name, service, FALSE) }
                   : q \in ExecuteHooks(updatePhase(updatePhase(r.m, name, PhaseStop), name, PhasePostStop),
                                        name, service.hooks.postStop) }
           : r \in ExecuteHooks(updatePhase(m, name, PhasePreStop), name, service.hooks.preStop) } }

\* StopService that returns the error of a failing preStop batch.
StopServiceAbortOnHook(m, name, service) ==
    { lifecycleReturn("StopService", name, x) : x \in
    IF name \notin DOMAIN m.svc THEN {[m |-> m, err |-> "service not found"]}
    ELSE IF m.svc[name].Phase = PhaseStopped THEN {[m |-> m, err |-> NoErr]}
    ELSE UNION {
           IF r.err # NoErr THEN {r}
           ELSE UNION { { [m |-> setStopped(pr.m, name), err |-> NoErr]
                          : pr \in runPostContainers(q.m, name, service, FALSE) }
                        : q \in ExecuteHooks(updatePhase(updatePhase(r.m, name, PhaseStop), name, PhasePostStop),
                                             name, service.hooks.postStop) }
           : r \in ExecuteHooks(updatePhase(m, name, PhasePreStop), name, service.hooks.preStop) } }

\* manager.go:96-140: hook failures are logged, never returned.  The last
\* event is the return, with the error.
StopService(m, name, service) ==
    { lifecycleReturn("StopService", name, x) : x \in
    IF name \notin DOMAIN m.svc THEN {[m |-> m, err |-> "service not found"]}
    ELSE IF m.svc[name].Phase = PhaseStopped THEN {[m |-> m, err |-> NoErr]}
    ELSE UNION {
           UNION { { [m |-> setStopped(pr.m, name), err |-> NoErr]
                     : pr \in runPostContainers(q.m, name, service, FALSE) }
                   : q \in ExecuteHooks(updatePhase(updatePhase(r.m, name, PhaseStop), name, PhasePostStop),
                                        name, service.hooks.postStop) }
           : r \in ExecuteHooks(updatePhase(m, name, PhasePreStop), name, service.hooks.preStop) } }

\* ------------------------------------------------------ container backend

\* A call of the backend on container cid: it succeeds or fails; at success
\* the container takes `status` (a removed container stays removed).
backendCall(m, op, name, cid, arg, status) ==
    { LET m1 == IF ok /\ status # "" /\ m.ctr[cid] # "removed"
                THEN [m EXCEPT !.ctr[cid] = status]
                ELSE m
      IN  [m |-> Fault(Emit(m1, Ev(op, name, cid, arg, ok)), ok), ok |-> ok]
      : ok \in backendOutcomes(m) }

\* docker.go:51-115: at success a new container exists, with a fresh id.
CreateService(m, name) ==
    { IF ok
      THEN [m  |-> Emit([m EXCEPT !.ctr = [c \in DOMAIN m.ctr \cup {m.nid} |->
                                              IF c = m.nid THEN "created" ELSE m.ctr[c]],
                                  !.nid = @ + 1],
                        Ev("CreateService", name, m.nid, "", TRUE)),
            id |-> m.nid, ok |-> TRUE]
      ELSE [m  |-> Fault(Emit(m, Ev("CreateService", name, 0, "", FALSE)), FALSE),
            id |-> 0, ok |-> FALSE]
      : ok \in backendOutcomes(m) }

\* docker.go:117-127
StartContainer(m, name, cid) == backendCall(m, "StartContainer", name, cid, "", "running")

\* docker.go:130-141
StopContainer(m, name, cid, timeout) == backendCall(m, "StopContainer", name, cid, timeout, "stopped")

\* docker.go:144-156
RemoveContainer(m, name, cid) == backendCall(m, "RemoveContainer", name, cid, "", "removed")

\* docker.go:159-222
RunInitContainer(m, name, init) == backendCall(m, "RunInitContainer", name, 0, init, "")

\* docker.go:224-294, part_001:124-140: the backend sleeps out the waitFor
\* delay, whatever happens to the context, and then runs the post container.
RunPostContainer(m, name, post) ==
    UNION { backendCall(w, "RunPostContainer", name, 0, post.name, "")
            : w \in IF post.waitFor
                    THEN { Emit(c, Ev("waitFor", name, 1, post.name, c.ctx # "cancelled"))
                           : c \in Signal(m) }
                    ELSE {m} }

\* ------------------------------------------------------------- orchestrator

RECURSIVE runInits(_, _, _)

\* runInits that goes on after a failing init container.
runInitsIgnoreFailure(m, name, inits) ==
    IF inits = <<>> THEN {[m |-> m, err |-> NoErr]}
    ELSE UNION { runInits(r.m, name, Tail(inits)) : r \in RunInitContainer(m, name, Head(inits)) }

\* executor.go:83-87: the first failing init container ends the loop.
runInits(m, name, inits) ==
    IF inits = <<>> THEN {[m |-> m, err |-> NoErr]}
    ELSE UNION { IF r.ok THEN runInits(r.m, name, Tail(inits))
                 ELSE {[m |-> r.m, err |-> "init container failed"]}
                 : r \in RunInitContainer(m, name, Head(inits)) }

\* executor.go:103-109 (onSuccess) and 139-145 (onFailure): a failing post
\* container is logged and the loop goes on.
RECURSIVE runPosts(_, _, _, _)
runPosts(m, name, posts, onSuccess) ==
    IF posts = <<>> THEN {m}
    ELSE LET p == Head(posts)
         IN  IF (onSuccess /\ p.onSuccess) \/ (~onSuccess /\ p.onFailure)
             THEN UNION { runPosts(r.m, name, Tail(posts), onSuccess)
                          : r \in RunPostContainer(m, name, p) }
             ELSE runPosts(m, name, Tail(posts), onSuccess)

\* executor.go:99-101
recordRunning(m, name, cid) ==
    Emit([m EXCEPT !.run = [n \in DOMAIN m.run \cup {name} |->
                               IF n = name THEN cid ELSE m.run[n]]],
         Ev("record", name, cid, "", TRUE))

\* deleteRunning that keeps the entry.
deleteRunningKept(m, name) == Emit(m, Ev("delete", name, 0, "", TRUE))

\* executor.go:147-149
deleteRunning(m, name) ==
    Emit([m EXCEPT !.run = [n \in DOMAIN m.run \ {name} |-> m.run[n]]],
         Ev("delete", name, 0, "", TRUE))

\* startContainer that returns the failure of an on-success post container.
startContainerPostFatal(m, name, service) ==
    UNION {
      IF ~c.ok THEN {[m |-> c.m, err |-> "failed to create service container"]}
      ELSE UNION {
             IF ~s.ok
             THEN {[m |-> r.m, err |-> "failed to start service container"]
                   : r \in RemoveContainer(s.m, name, c.id)}
             ELSE {[m   |-> p,
                    err |-> IF p.faults > s.m.faults THEN "post container failed" ELSE NoErr]
                   : p \in runPosts(recordRunning(s.m, name, c.id), name,
                                    service.postContainers, TRUE)}
             : s \in StartContainer(c.m, name, c.id) }
      : c \in CreateService(m, name) }

\* startContainer that leaves the container of a failed StartContainer.
startContainerNoCleanup(m, name, service) ==
    UNION {
      IF ~c.ok THEN {[m |-> c.m, err |-> "failed to create service container"]}
      ELSE UNION {
             IF ~s.ok
             THEN {[m |-> s.m, err |-> "failed to start service container"]}
             ELSE {[m |-> p, err |-> NoErr]
                   : p \in runPosts(recordRunning(s.m, name, c.id), name,
                                    service.postContainers, TRUE)}
             : s \in StartContainer(c.m, name, c.id) }
      : c \in CreateService(m, name) }

\* executor.go:89-112
startContainer(m, name, service) ==
    UNION {
      IF ~c.ok THEN {[m |-> c.m, err |-> "failed to create service container"]}
      ELSE UNION {
             IF ~s.ok
             THEN {[m |-> r.m, err |-> "failed to start service container"]
                   : r \in RemoveContainer(s.m, name, c.id)}
             ELSE {[m |-> p, err |-> NoErr]
                   : p \in runPosts(recordRunning(s.m, name, c.id), name,
                                    service.postContainers, TRUE)}
             : s \in StartContainer(c.m, name, c.id) }
      : c \in CreateService(m, name) }

\* executor.go:76-113.  The last event is the return, with the error.
startService(m, name, service) ==
    { [m |-> Emit(r.m, Ev("startService", name, 0, r.err, r.err = NoErr)), err |-> r.err]
      : r \in UNION {
                IF l.err # NoErr THEN {l}
                ELSE UNION { IF i.err # NoErr THEN {i}
                             ELSE startContainer(i.m, name, service)
                             : i \in runInits(l.m, name, service.initContainers) }
                : l \in StartService(m, name, service) } }

\* stopService that returns at a failing StopContainer.
stopServiceAbort(m, name, service) ==
    IF name \notin DOMAIN m.run
    THEN {Emit(m, Ev("stopService", name, 0, "not running", TRUE))}
    ELSE LET cid == m.run[name]
         IN  UNION { UNION {
               IF ~st.ok
               THEN {Emit(st.m, Ev("stopService", name, cid, "failed", FALSE))}
               ELSE UNION {
                 { Emit(deleteRunning(p, name), Ev("stopService", name, cid, "stopped", TRUE))
                   : p \in runPosts(rm.m, name, service.postContainers, FALSE) }
                 : rm \in RemoveContainer(st.m, name, cid) }
               : st \in StopContainer(l.m, name, cid, "30") }
               : l \in StopService(m, name, service) }

\* stopService that calls the lifecycle StopService before it looks the
\* service up in runningServices.
stopServiceLifecycleFirst(m, name, service) ==
    UNION {
      IF name \notin DOMAIN l.m.run
      THEN {Emit(l.m, Ev("stopService", name, 0, "not running", TRUE))}
      ELSE LET cid == l.m.run[name]
           IN  UNION { UNION {
                 { Emit(deleteRunning(p, name), Ev("stopService", name, cid, "stopped", TRUE))
                   : p \in runPosts(rm.m, name, service.postContainers, FALSE) }
                 : rm \in RemoveContainer(st.m, name, cid) }
                 : st \in StopContainer(l.m, name, cid, "30") }
      : l \in StopService(m, name, service) }

\* executor.go:115-153: always returns nil.
stopService(m, name, service) ==
    IF name \notin DOMAIN m.run
    THEN {Emit(m, Ev("stopService", name, 0, "not running", TRUE))}
    ELSE LET cid == m.run[name]
         IN  UNION { UNION { UNION {
               { Emit(deleteRunning(p, name), Ev("stopService", name, cid, "stopped", TRUE))
                 : p \in runPosts(rm.m, name, service.postContainers, FALSE) }
               : rm \in RemoveContainer(st.m, name, cid) }
               : st \in StopContainer(l.m, name, cid, "30") }
               : l \in StopService(m, name, service) }

\* executor.go:50: rollback makes its calls with context.Background().
inBackground(m) == [m EXCEPT !.ctx = "background"]

\* rollbackService without the removal of the container.
rollbackServiceNoRemove(m, name, cid) ==
    { [x EXCEPT !.ctx = m.ctx] : x \in UNION {
      IF name \in DOMAIN compose
      THEN { l.m : l \in StopService(st.m, name, compose[name]) }
      ELSE { st.m }
      : st \in StopContainer(Emit(inBackground(m), Ev("rollback", name, cid, "", TRUE)),
                             name, cid, "10") } }

\* rollbackService that deletes the entry from runningServices.
rollbackServiceDelete(m, name, cid) ==
    { [x EXCEPT !.ctx = m.ctx, !.run = [n \in DOMAIN x.run \ {name} |-> x.run[n]]]
      : x \in UNION { UNION {
      IF name \in DOMAIN compose
      THEN { l.m : l \in StopService(rm.m, name, compose[name]) }
      ELSE { rm.m }
      : rm \in RemoveContainer(st.m, name, cid) }
      : st \in StopContainer(Emit(inBackground(m), Ev("rollback", name, cid, "", TRUE)),
                             name, cid, "10") } }

\* executor.go:163-178: one iteration of rollback's loop, for the entry
\* name -> cid of its copy of runningServices.
rollbackService(m, name, cid) ==
    { [x EXCEPT !.ctx = m.ctx] : x \in UNION { UNION {
      IF name \in DOMAIN compose
      THEN { l.m : l \in StopService(rm.m, name, compose[name]) }
      ELSE { rm.m }
      : rm \in RemoveContainer(st.m, name, cid) }
      : st \in StopContainer(Emit(inBackground(m), Ev("rollback", name, cid, "", TRUE)),
                             name, cid, "10") } }

\* ---------------------------------------------------------------- actions

M == [svc |-> services, run |-> runningServices, ctr |-> containers,
      nid |-> nextId, log |-> log, faults |-> faults, ctx |-> ctx, impl |-> impl]

Store(m) ==
    /\ services' = m.svc
    /\ runningServices' = m.run
    /\ containers' = m.ctr
    /\ nextId' = m.nid
    /\ log' = m.log
    /\ faults' = m.faults
    /\ ctx' = m.ctx
    /\ impl' = m.impl

Nil == [svc |-> "", cause |-> NoErr]

Return(op, err) ==
    /\ pc' = "idle"
    /\ hist' = Append(hist, [op |-> op, err |-> err])

\* The result of the last completed invocation.
Last == hist[Len(hist)]

\* The invocation op has returned and no other is running.
Returned(op) == pc = "idle" /\ Len(hist) > 0 /\ Last.op = op

ComposeFiles(gs) == {MkServices(g) : g \in gs}

Init ==
    /\ compose \in ComposeFiles(Graphs)
    /\ runningServices = << >>
    /\ services = << >>
    /\ containers = << >>
    /\ nextId = 1
    /\ pc = "idle"
    /\ ordered = << >>
    /\ idx = 0
    /\ pending = << >>
    /\ startErr = Nil
    /\ log = << >>
    /\ hist = << >>
    /\ atCall = << >>
    /\ states = << >>
    /\ mu = Unlocked
    /\ faults = 0
    /\ ctx = "background"
    /\ impl = "docker"

\* executor.go:43: Up's loop takes the services in the resolved order.
upOrder(ord) == ord

\* downOrder from the first to the last.
downOrderForward(ord) == ord

\* executor.go:64-65: Down's loop takes them from the last to the first.
downOrder(ord) == [i \in 1..Len(ord) |-> ord[Len(ord) + 1 - i]]

\* upError with the error dropped.
upErrorDropped(name, err) == [svc |-> "", cause |-> NoErr]

\* executor.go:52: the error Up returns wraps the error of startService.
upError(name, err) == [svc |-> name, cause |-> err]

\* executor.go:38-41: Up is called and resolves the order.
Up ==
    /\ pc = "idle"
    /\ Len(hist) < MaxCalls
    /\ ordered' \in orderServices(compose)
    /\ idx' = 1
    /\ pc' = "up"
    /\ log' = << >>
    /\ startErr' = Nil
    /\ atCall' = runningServices
    /\ UNCHANGED << compose, mu, states, runningServices, services, containers, nextId, pending, hist,
                    faults, ctx, impl >>

\* executor.go:43-56: one iteration of Up's loop.  A failing startService
\* leads to rollback (which copies runningServices) and to the return of
\* the error; the last successful one to the return of nil.  A name that is
\* no service of the spec has a nil *Service: StartService registers its
\* state and dereferences nil (manager.go:61, 143).
UpStartService ==
    /\ pc = "up"
    /\ LET name == upOrder(ordered)[idx]
       IN  IF name \notin DOMAIN compose
           THEN /\ Store(register(M, name))
                /\ pc' = "panic"
                /\ UNCHANGED << compose, mu, states, ordered, idx, pending, startErr, hist, atCall >>
           ELSE \E r \in startService(M, name, compose[name]) :
                  /\ Store(r.m)
                  /\ IF r.err # NoErr
                     THEN /\ startErr' = upError(name, r.err)
                          /\ pending' = r.m.run
                          /\ idx' = idx
                          /\ IF DOMAIN r.m.run = {}
                             THEN Return("Up", startErr')
                             ELSE pc' = "rollback" /\ hist' = hist
                     ELSE /\ UNCHANGED << pending, startErr >>
                          /\ IF idx = Len(ordered)
                             THEN idx' = idx /\ Return("Up", Nil)
                             ELSE idx' = idx + 1 /\ pc' = "up" /\ hist' = hist
                  /\ UNCHANGED << compose, mu, states, ordered, atCall >>

\* executor.go:163-178, then 52: rollback ranges over its copy in any order;
\* after the last entry Up returns the error of the failing startService.
Rollback ==
    /\ pc = "rollback"
    /\ \E name \in DOMAIN pending :
         \E m \in rollbackService(M, name, pending[name]) :
           /\ Store(m)
           /\ pending' = [n \in DOMAIN pending \ {name} |-> pending[n]]
           /\ IF DOMAIN pending = {name}
              THEN Return("Up", startErr)
              ELSE pc' = "rollback" /\ hist' = hist
    /\ UNCHANGED << compose, mu, states, ordered, idx, startErr, atCall >>

\* executor.go:59-64: Down is called and resolves the order.
Down ==
    /\ pc = "idle"
    /\ Len(hist) < MaxCalls
    /\ ordered' \in orderServices(compose)
    /\ idx' = 1
    /\ pc' = "down"
    /\ log' = << >>
    /\ startErr' = Nil
    /\ atCall' = runningServices
    /\ UNCHANGED << compose, mu, states, runningServices, services, containers, nextId, pending, hist,
                    faults, ctx, impl >>

\* executor.go:64-73: one iteration of Down's loop; idx counts the
\* iterations.  After the last one Down returns nil.  A name that is no
\* service of the spec has a nil *Service, which stopService only reads
\* when the name is in runningServices.
DownStopService ==
    /\ pc = "down"
    /\ LET name == downOrder(ordered)[idx]
       IN  \E m \in stopService(M, name, IF name \in DOMAIN compose THEN compose[name] ELSE Nil) :
             /\ Store(m)
             /\ IF idx = Len(ordered)
                THEN idx' = idx /\ Return("Down", Nil)
                ELSE idx' = idx + 1 /\ pc' = "down" /\ hist' = hist
    /\ UNCHANGED << compose, mu, states, ordered, pending, startErr, atCall >>

Next == Up \/ UpStartService \/ Rollback \/ Down \/ DownStopService

Spec == Init /\ [][Next]_vars

\* The resolver alone, on every graph of AllGraphs.
InitOrder ==
    /\ compose \in ComposeFiles(AllGraphs)
    /\ runningServices = << >>
    /\ services = << >>
    /\ containers = << >>
    /\ nextId = 1
    /\ pc = "idle"
    /\ ordered = << >>
    /\ idx = 0
    /\ pending = << >>
    /\ startErr = Nil
    /\ log = << >>
    /\ hist = << >>
    /\ atCall = << >>
    /\ states = << >>
    /\ mu = Unlocked
    /\ faults = 0
    /\ ctx = "background"
    /\ impl = "docker"

\* One call of orderServices; log takes the calls of visit it made.
Resolve ==
    /\ pc = "idle"
    /\ \E s \in traverse(compose) :
         /\ ordered' = returnResult(s)
         /\ log' = s.calls
    /\ pc' = "resolved"
    /\ UNCHANGED << compose, mu, states, runningServices, services, containers, nextId, idx,
                    pending, startErr, hist, atCall, faults, ctx, impl >>

NextOrder == Resolve

OrderSpec == InitOrder /\ [][NextOrder]_vars

\* The `up` command of the CLI (main.go:86-123): one Executor, Up with a
\* context that an interrupt signal cancels, then, when Up returned nil and
\* the context is cancelled, Down with context.Background().  The backend is
\* the Docker manager or, when Docker is not available, the StubManager
\* (part_001:28-41).
InitCli ==
    /\ compose \in ComposeFiles(Graphs)
    /\ runningServices = << >>
    /\ services = << >>
    /\ containers = << >>
    /\ nextId = 1
    /\ pc = "idle"
    /\ ordered = << >>
    /\ idx = 0
    /\ pending = << >>
    /\ startErr = Nil
    /\ log = << >>
    /\ hist = << >>
    /\ atCall = << >>
    /\ states = << >>
    /\ mu = Unlocked
    /\ faults = 0
    /\ ctx = "live"
    /\ impl \in {"docker", "stub"}

\* main.go:105
CliUp == hist = << >> /\ Up

\* main.go:92-96: the signal arrives between two steps of Up, or while the
\* command waits after Up returned nil (main.go:116).
Interrupt ==
    /\ ctx = "live"
    /\ pc \in {"up", "rollback"} \/ (Returned("Up") /\ Last.err = Nil)
    /\ Store(cancel(M))
    /\ UNCHANGED << compose, mu, states, pc, ordered, idx, pending, startErr, hist, atCall >>

\* main.go:116-119
CliDown ==
    /\ Returned("Up") /\ Last.err = Nil
    /\ ctx = "cancelled"
    /\ ordered' \in orderServices(compose)
    /\ idx' = 1
    /\ pc' = "down"
    /\ log' = << >>
    /\ startErr' = Nil
    /\ atCall' = runningServices
    /\ ctx' = "background"
    /\ UNCHANGED << compose, mu, states, runningServices, services, containers, nextId, pending, hist,
                    faults, impl >>

NextCli == CliUp \/ UpStartService \/ Rollback \/ Interrupt \/ CliDown \/ DownStopService

CliSpec == InitCli /\ [][NextCli]_vars

\* The Executor API on a host without Docker: NewManager falls back to the
\* StubManager (part_001:27-35), whose calls always succeed; hooks can
\* still fail.
InitStub ==
    /\ compose \in ComposeFiles(Graphs)
    /\ runningServices = << >>
    /\ services = << >>
    /\ containers = << >>
    /\ nextId = 1
    /\ pc = "idle"
    /\ ordered = << >>
    /\ idx = 0
    /\ pending = << >>
    /\ startErr = Nil
    /\ log = << >>
    /\ hist = << >>
    /\ atCall = << >>
    /\ states = << >>
    /\ mu = Unlocked
    /\ faults = 0
    /\ ctx = "background"
    /\ impl = "stub"

StubSpec == InitStub /\ [][Next]_vars

\* ------------------------------------------- concurrent calls on one Manager

\* Goroutines calling the lifecycle Manager at the same time.
MaxThreads == 2

Threads == 1..MaxThreads

\* manager.go:233-240 as instructions: the update of the phase is made
\* between Lock and the deferred Unlock.
updatePhaseCode(phase) ==
    << [op |-> "Lock"], [op |-> "write", field |-> "Phase", value |-> phase], [op |-> "Unlock"] >>

\* manager.go:96-140 as instructions, for a service without post containers
\* (runPostContainers returns at manager.go:167-169).  The read of
\* state.Phase at line 105 comes after the RUnlock of line 99.
StopServiceCode ==
    << [op |-> "RLock"], [op |-> "read", field |-> "services"], [op |-> "RUnlock"],
       [op |-> "read", field |-> "Phase"] >>
    \o updatePhaseCode(PhasePreStop)
    \o << [op |-> "hooks", slot |-> "preStop"] >>
    \o updatePhaseCode(PhaseStop)
    \o updatePhaseCode(PhasePostStop)
    \o << [op |-> "hooks", slot |-> "postStop"] >>
    \o updatePhaseCode(PhaseStopped)

\* manager.go:215-220 as instructions, followed by the caller's read of a
\* field through the *ServiceState it was given.
GetServiceStateCode ==
    << [op |-> "RLock"], [op |-> "read", field |-> "services"], [op |-> "RUnlock"],
       [op |-> "read", field |-> "Phase"] >>

Code(call) == IF call = "StopService" THEN StopServiceCode ELSE GetServiceStateCode

\* The next instruction of thread t; op "" when it is in no call.
Instr(t) ==
    IF pc[t].call = "" \/ pc[t].at > Len(Code(pc[t].call)) THEN [op |-> ""]
    ELSE Code(pc[t].call)[pc[t].at]

Goto(t, at) == pc' = [pc EXCEPT ![t].at = at]

\* The service api, started with success by StartService, on one Manager
\* that no thread is calling yet.
InitConcurrent ==
    /\ compose = MkServices([n \in {"api"} |-> {}])
    /\ runningServices = << >>
    /\ services \in { r.m.svc : r \in { x \in StartService(
                          [svc |-> << >>, run |-> << >>, ctr |-> << >>, nid |-> 1, log |-> << >>,
                           faults |-> 0, ctx |-> "background", impl |-> "docker"],
                          "api", MkServices([n \in {"api"} |-> {}])["api"]) : x.err = NoErr } }
    /\ containers = << >>
    /\ nextId = 1
    /\ pc = [t \in Threads |-> [call |-> "", at |-> 0]]
    /\ ordered = << >>
    /\ idx = 0
    /\ pending = << >>
    /\ startErr = Nil
    /\ log = << >>
    /\ hist = << >>
    /\ atCall = << >>
    /\ states = << >>
    /\ mu = Unlocked
    /\ faults = 0
    /\ ctx = "background"
    /\ impl = "docker"

\* A goroutine calls StopService or GetServiceState for api.
Begin ==
    /\ \E t \in Threads, call \in {"StopService", "GetServiceState"} :
         /\ pc[t].call = ""
         /\ pc' = [pc EXCEPT ![t] = [call |-> call, at |-> 1]]
    /\ UNCHANGED << compose, runningServices, services, containers, nextId, ordered, idx, pending,
                    startErr, log, hist, atCall, faults, ctx, impl, states, mu >>

\* sync.RWMutex: RLock waits for the writer, Lock for the writer and the
\* readers.
RLock ==
    /\ \E t \in Threads :
         /\ Instr(t).op = "RLock"
         /\ mu.writer = 0
         /\ mu' = [mu EXCEPT !.readers = @ \cup {t}]
         /\ Goto(t, pc[t].at + 1)
    /\ UNCHANGED << compose, runningServices, services, containers, nextId, ordered, idx, pending,
                    startErr, log, hist, atCall, faults, ctx, impl, states >>

RUnlock ==
    /\ \E t \in Threads :
         /\ Instr(t).op = "RUnlock"
         /\ mu' = [mu EXCEPT !.readers = @ \ {t}]
         /\ Goto(t, pc[t].at + 1)
    /\ UNCHANGED << compose, runningServices, services, containers, nextId, ordered, idx, pending,
                    startErr, log, hist, atCall, faults, ctx, impl, states >>

Lock ==
    /\ \E t \in Threads :
         /\ Instr(t).op = "Lock"
         /\ mu = Unlocked
         /\ mu' = [mu EXCEPT !.writer = t]
         /\ Goto(t, pc[t].at + 1)
    /\ UNCHANGED << compose, runningServices, services, containers, nextId, ordered, idx, pending,
                    startErr, log, hist, atCall, faults, ctx, impl, states >>

Unlock ==
    /\ \E t \in Threads :
         /\ Instr(t).op = "Unlock"
         /\ mu' = [mu EXCEPT !.writer = 0]
         /\ Goto(t, pc[t].at + 1)
    /\ UNCHANGED << compose, runningServices, services, containers, nextId, ordered, idx, pending,
                    startErr, log, hist, atCall, faults, ctx, impl, states >>

\* A read of the map or of a field.  The read of state.Phase in StopService
\* decides the early return of manager.go:105-107.
Read ==
    /\ \E t \in Threads :
         /\ Instr(t).op = "read"
         /\ IF /\ pc[t].call = "StopService" /\ Instr(t).field = "Phase"
               /\ services["api"].Phase = PhaseStopped
            THEN Goto(t, Len(StopServiceCode) + 1)
            ELSE Goto(t, pc[t].at + 1)
    /\ UNCHANGED << compose, runningServices, services, containers, nextId, ordered, idx, pending,
                    startErr, log, hist, atCall, faults, ctx, impl, states, mu >>

\* The write of updatePhase, or the writes of manager.go:134-136; the event
\* carries the thread.
Write ==
    /\ \E t \in Threads :
         /\ Instr(t).op = "write"
         /\ LET m == IF Instr(t).value = PhaseStopped THEN setStopped(M, "api")
                     ELSE updatePhase(M, "api", Instr(t).value)
            IN  Store([m EXCEPT !.log[Len(m.log)].cid = t])
         /\ Goto(t, pc[t].at + 1)
    /\ UNCHANGED << compose, ordered, idx, pending, startErr, hist, atCall, states, mu >>

\* manager.go:111-116, 124-129: the hooks of the slot are executed; their
\* failure is only logged.
Hooks ==
    /\ \E t \in Threads :
         /\ Instr(t).op = "hooks"
         /\ \E r \in ExecuteHooks(Emit(M, Ev("hooks", "api", t, Instr(t).slot, TRUE)), "api",
                                  compose["api"].hooks[Instr(t).slot]) :
              Store(r.m)
         /\ Goto(t, pc[t].at + 1)
    /\ UNCHANGED << compose, ordered, idx, pending, startErr, hist, atCall, states, mu >>

NextConcurrent == Begin \/ RLock \/ RUnlock \/ Lock \/ Unlock \/ Read \/ Write \/ Hooks

ConcurrentSpec == InitConcurrent /\ [][NextConcurrent]_vars

\* The lifecycle Manager alone: StartService and StopService called in any
\* order, for any service, with a context that is not, may get or is
\* cancelled.  The on-failure post container of web has a waitFor delay
\* here, so that the teardown has a wait a cancellation can fail.
Contexts == {"background", "live", "cancelled"}

InitLifecycle ==
    /\ compose = [MkServices([n \in Names |-> {}])
                    EXCEPT !["web"].postContainers[2].waitFor = TRUE]
    /\ runningServices = << >>
    /\ services = << >>
    /\ containers = << >>
    /\ nextId = 1
    /\ pc = "idle"
    /\ ordered = << >>
    /\ idx = 0
    /\ pending = << >>
    /\ startErr = Nil
    /\ log = << >>
    /\ hist = << >>
    /\ atCall = << >>
    /\ states = << >>
    /\ mu = Unlocked
    /\ faults = 0
    /\ ctx = "background"
    /\ impl = "docker"

\* The machine state at a call made with context c; log takes the events of
\* the call.
AtCall(c) == [M EXCEPT !.log = << >>, !.ctx = c]

\* A pointer in the map of the caller is either the ServiceState the Manager
\* tracks under that name now (live), or a ServiceState the Manager tracked
\* when the map was made and has replaced since, with the value val it had
\* when it was replaced.
Live == [live |-> TRUE]

Old(state) == [live |-> FALSE, val |-> state]

\* manager.go:44-52: StartService puts a new ServiceState under the name; a
\* pointer to the one it replaces keeps that one, which the Manager no
\* longer reaches.
detach(name) ==
    [k \in DOMAIN states |->
        IF k = name /\ states[k].live THEN Old(services[k]) ELSE states[k]]

\* What the caller reads through the pointer under name k of its map.
Deref(sts, svcs, k) == IF sts[k].live THEN svcs[k] ELSE sts[k].val

CallStartService ==
    /\ pc = "idle"
    /\ Len(hist) < MaxManagerCalls
    /\ \E n \in DOMAIN compose, c \in Contexts :
         \E r \in StartService(AtCall(c), n, compose[n]) :
           /\ Store(r.m)
           /\ hist' = Append(hist, [op |-> "StartService", err |-> [svc |-> n, cause |-> r.err]])
           /\ states' = detach(n)
    /\ UNCHANGED << compose, mu, pc, ordered, idx, pending, startErr, atCall >>

CallStopService ==
    /\ pc = "idle"
    /\ Len(hist) < MaxManagerCalls
    /\ \E n \in DOMAIN compose, c \in Contexts :
         \E r \in StopService(AtCall(c), n, compose[n]) :
           /\ Store(r.m)
           /\ hist' = Append(hist, [op |-> "StopService", err |-> [svc |-> n, cause |-> r.err]])
    /\ UNCHANGED << compose, mu, states, pc, ordered, idx, pending, startErr, atCall >>

NextLifecycle == CallStartService \/ CallStopService

\* manager.go:222-231: a new map with the keys of m.services and, under
\* each key, the same *ServiceState pointer.
GetAllServiceStates ==
    /\ pc = "idle"
    /\ Len(hist) < MaxManagerCalls
    /\ states' = [k \in DOMAIN services |-> Live]
    /\ hist' = Append(hist, [op |-> "GetAllServiceStates", err |-> Nil])
    /\ UNCHANGED << compose, mu, runningServices, services, containers, nextId, pc, ordered, idx,
                    pending, startErr, log, atCall, faults, ctx, impl >>

\* The caller removes a key of the map it got.
CallerDelete ==
    /\ pc = "idle"
    /\ Len(hist) < MaxManagerCalls
    /\ \E k \in DOMAIN states :
         /\ states' = [j \in DOMAIN states \ {k} |-> states[j]]
         /\ hist' = Append(hist, [op |-> "delete", err |-> [svc |-> k, cause |-> NoErr]])
    /\ UNCHANGED << compose, mu, runningServices, services, containers, nextId, pc, ordered, idx,
                    pending, startErr, log, atCall, faults, ctx, impl >>

\* The caller assigns the Status field of an element of the map it got;
\* the element is a pointer, so the assignment lands in the ServiceState it
\* points to.
CallerSetStatus ==
    /\ pc = "idle"
    /\ Len(hist) < MaxManagerCalls
    /\ \E k \in DOMAIN states :
         /\ IF states[k].live
              THEN /\ services' = [services EXCEPT ![k].Status = "edited"]
                   /\ UNCHANGED states
              ELSE /\ states' = [states EXCEPT ![k].val.Status = "edited"]
                   /\ UNCHANGED services
         /\ hist' = Append(hist, [op |-> "setStatus", err |-> [svc |-> k, cause |-> NoErr]])
    /\ UNCHANGED << compose, mu, runningServices, containers, nextId, pc, ordered, idx,
                    pending, startErr, log, atCall, faults, ctx, impl >>

NextSnapshot ==
    \/ CallStartService
    \/ CallStopService
    \/ GetAllServiceStates
    \/ CallerDelete
    \/ CallerSetStatus

SnapshotSpec == InitLifecycle /\ [][NextSnapshot]_vars

LifecycleSpec == InitLifecycle /\ [][NextLifecycle]_vars

\* The hook engine alone, on every list of up to MaxHooks hooks with up to
\* MaxRetries retries each: the hooks are the preStart hooks of a service.
HookNames == <<"h1", "h2", "h3", "h4", "h5">>

HookLists ==
    UNION { { [k \in 1..n |-> [name |-> HookNames[k], retries |-> r[k]]]
              : r \in [1..n -> 0..MaxRetries] }
            : n \in 0..MaxHooks }

InitHooks ==
    /\ compose \in { [n \in {"api"} |-> [Service("api", {}) EXCEPT !.hooks.preStart = L]]
                     : L \in HookLists }
    /\ runningServices = << >>
    /\ services = << >>
    /\ containers = << >>
    /\ nextId = 1
    /\ pc = "idle"
    /\ ordered = << >>
    /\ idx = 0
    /\ pending = << >>
    /\ startErr = Nil
    /\ log = << >>
    /\ hist = << >>
    /\ atCall = << >>
    /\ states = << >>
    /\ mu = Unlocked
    /\ faults = 0
    /\ ctx = "background"
    /\ impl = "docker"

\* One call of ExecuteHooks on the list.
RunHooks ==
    /\ pc = "idle"
    /\ \E r \in ExecuteHooks(M, "api", compose["api"].hooks.preStart) :
         /\ Store(r.m)
         /\ hist' = Append(hist, [op |-> "ExecuteHooks", err |-> [svc |-> "api", cause |-> r.err]])
    /\ pc' = "hooked"
    /\ UNCHANGED << compose, mu, states, ordered, idx, pending, startErr, atCall >>

\* One call of ExecuteHooksWithResults on the list.
RunHooksWithResults ==
    /\ pc = "idle"
    /\ \E r \in ExecuteHooksWithResults(M, "api", compose["api"].hooks.preStart, << >>) :
         /\ Store(r.m)
         /\ hist' = Append(hist, [op |-> "ExecuteHooksWithResults", err |-> Nil,
                                  results |-> r.results])
    /\ pc' = "reported"
    /\ UNCHANGED << compose, mu, states, ordered, idx, pending, startErr, atCall >>

NextHooks == RunHooks \/ RunHooksWithResults

HookSpec == InitHooks /\ [][NextHooks]_vars

\* ------------------------------------------------ vocabulary of the claims

\* The names reachable from the names S along dependsOn edges.
RECURSIVE reach(_, _)
reach(svcs, S) ==
    LET T == S \cup UNION { svcs[n].dependsOn : n \in S \cap DOMAIN svcs }
    IN  IF T = S THEN S ELSE reach(svcs, T)

\* What service n depends on, directly or transitively.
Deps(svcs, n) == reach(svcs, svcs[n].dependsOn)

Acyclic(svcs) == \A n \in DOMAIN svcs : n \notin Deps(svcs, n)

Closed(svcs) == \A n \in DOMAIN svcs : svcs[n].dependsOn \subseteq DOMAIN svcs

Range(seq) == { seq[i] : i \in DOMAIN seq }

\* The position of x in seq, 0 when it is not there.
Index(seq, x) == IF x \in Range(seq) THEN CHOOSE i \in DOMAIN seq : seq[i] = x ELSE 0

BackendOps == {"CreateService", "StartContainer", "StopContainer", "RemoveContainer",
               "RunInitContainer", "RunPostContainer"}

\* The position in log of the return of startService for name with
\* success (ok) or failure, 0 when there is none.
StartReturn(name, ok) ==
    LET R == { i \in DOMAIN log : log[i].op = "startService" /\ log[i].svc = name /\ log[i].ok = ok }
    IN  IF R = {} THEN 0 ELSE CHOOSE i \in R : TRUE

\* The services of ordered whose startService failed in this invocation.
FailedStart ==
    { log[i].svc : i \in { j \in DOMAIN log : log[j].op = "startService" /\ ~log[j].ok } }
        \cap Range(ordered)

\* The services started (startService returned nil) in this invocation.
StartedNow ==
    { log[i].svc : i \in { j \in DOMAIN log : log[j].op = "startService" /\ log[j].ok } }
        \cap Range(ordered)

\* The positions in log of the events op.
At(op) == { i \in DOMAIN log : log[i].op = op }

\* The positions in log of the calls op of the backend on container cid of
\* service name.
CallsOn(op, name, cid) == { i \in At(op) : log[i].svc = name /\ log[i].cid = cid }

\* The positions in log at which service name entered phase ph.
PhaseAt(name, ph) == { i \in At("phase") : log[i].svc = name /\ log[i].arg = ph }

\* The positions in log of the events that concern service name.
EventsOf(name) == { i \in DOMAIN log : log[i].svc = name }

\* The container recorded for name in this invocation.
RecordedNow(name) ==
    LET i == CHOOSE i \in At("record") : log[i].svc = name
    IN  log[i].cid

\* ------------------------------------------------------------------ claims

\* C1: for every acyclic dependency graph whose dependsOn targets are all
\* services of the spec, the sequence orderServices returns contains every
\* service exactly once, each after every service it depends on, directly or
\* transitively.
C1_OrderRespectsDependencies ==
    (pc = "resolved" /\ Acyclic(compose) /\ Closed(compose)) =>
        /\ Len(ordered) = Cardinality(DOMAIN compose)
        /\ Range(ordered) = DOMAIN compose
        /\ \A n \in DOMAIN compose :
             \A d \in Deps(compose, n) : Index(ordered, d) < Index(ordered, n)

\* An order was resolved for a chain of three services in which the map
\* range met the dependent services first.
C1_Witness ==
    /\ pc = "resolved"
    /\ Acyclic(compose) /\ Closed(compose)
    /\ \E n \in DOMAIN compose : Cardinality(Deps(compose, n)) = 2
    /\ \E n \in DOMAIN compose : compose[n].dependsOn = {} /\ ordered[1] = n
    /\ Len(ordered) = 3

\* C2: if startService fails for a service during Up, no ServiceState is
\* registered and no backend call is made for any service that comes after
\* the failing one in the order.
C2_NoLaterServiceTouched ==
    \A n \in FailedStart :
        \A j \in DOMAIN log :
            log[j].op \in BackendOps \cup {"register"} =>
                Index(ordered, log[j].svc) <= Index(ordered, n)

\* C3: when Up returns the error of a failing service, then for every
\* service started before the failure rollback has called StopContainer and
\* then RemoveContainer on the container recorded for it and has run its
\* lifecycle teardown, and the service is in phase Stopped.
C3_StartedServicesRolledBack ==
    (Returned("Up") /\ Last.err # Nil) =>
        LET failed == StartReturn(Last.err.svc, FALSE)
            after  == { i \in DOMAIN log : i > failed }
        IN  \A a \in StartedNow :
                LET cid  == RecordedNow(a)
                    mine == { i \in after : log[i].svc = a }
                IN  /\ services[a].Phase = PhaseStopped
                    /\ \E s \in mine :
                         /\ log[s] = Ev("StopContainer", a, cid, "10", log[s].ok)
                         /\ \E r \in mine :
                              /\ s < r
                              /\ log[r] = Ev("RemoveContainer", a, cid, "", log[r].ok)
                              /\ \E t \in mine :
                                   /\ r < t
                                   /\ log[t] = Ev("phase", a, 0, PhasePreStop, TRUE)
                                   /\ \E u \in mine :
                                        t < u /\ log[u] = Ev("phase", a, 0, PhaseStopped, TRUE)

\* Up returned the error of the third service after two services had been
\* started, and a backend call of the rollback failed.
C3_Witness ==
    /\ Returned("Up") /\ Last.err # Nil
    /\ Cardinality(StartedNow) = 2
    /\ \E i \in At("StopContainer") : ~log[i].ok

\* C4: rollback processes the services started in this Up in the reverse of
\* the order in which they were started.
C4_RollbackInReverseStartOrder ==
    \A p, q \in At("rollback") :
        (p < q /\ log[p].svc \in StartedNow /\ log[q].svc \in StartedNow)
        => StartReturn(log[p].svc, TRUE) > StartReturn(log[q].svc, TRUE)

\* C5: when startService fails in Up, the error Up returns is the one that
\* wraps that failure, whatever failed during rollback, and never nil.
C5_ReturnsOriginalError ==
    \A n \in FailedStart :
        /\ pc = "rollback" => startErr = [svc |-> n, cause |-> log[StartReturn(n, FALSE)].arg]
        /\ pc = "idle" =>
             /\ Last = [op |-> "Up", err |-> [svc |-> n, cause |-> log[StartReturn(n, FALSE)].arg]]
             /\ Last.err.cause # NoErr

\* Up returned an error after a rollback in which StopContainer,
\* RemoveContainer or a teardown hook failed.
C5_Witness ==
    /\ Returned("Up") /\ Last.err # Nil
    /\ \E i \in DOMAIN log :
         /\ i > StartReturn(Last.err.svc, FALSE)
         /\ log[i].op \in {"StopContainer", "RemoveContainer", "ExecuteHook"}
         /\ ~log[i].ok

\* C6: rollback stops, removes and tears down only services started in the
\* same Up invocation; when nothing was started in this Up it does nothing.
C6_RollbackOnlyThisUp ==
    \A i \in At("rollback") : log[i].svc \in StartedNow

\* C7: during Up on an acyclic spec the container of a service is created
\* and started only after startService has returned with success for the
\* previous service of the order, and only after the containers of all the
\* services it depends on have been started.
C7_SequentialDependencyOrderedStartup ==
    LET evs     == { i \in DOMAIN log : log[i].op \in {"CreateService", "StartContainer"} }
        started == { j \in evs : log[j].op = "StartContainer" /\ log[j].ok }
        rets    == { j \in DOMAIN log : log[j].op = "startService" /\ log[j].ok }
    IN  \/ evs = {}
        \/ \A i \in evs :
             LET n == log[i].svc
                 k == Index(ordered, n)
             IN  /\ k > 1 => \E r \in rets : log[r].svc = ordered[k - 1] /\ r < i
                 /\ \A d \in Deps(compose, n) :
                      \E j \in started : j < i /\ log[j].svc = d
        \/ ~Acyclic(compose)

\* Up started the container of a service with two dependencies, after the
\* containers of both.
C7_Witness ==
    /\ Returned("Up")
    /\ Acyclic(compose)
    /\ \E i \in At("StartContainer") :
         /\ log[i].ok
         /\ Cardinality(compose[log[i].svc].dependsOn) = 2

\* The services of the stopService returns in log, in order.
StopReturns == [i \in 1..Cardinality(At("stopService")) |->
              log[CHOOSE p \in At("stopService") :
                    Cardinality({q \in At("stopService") : q <= p}) = i].svc]

\* C8: Down tears the services down in the reverse of the order it resolved;
\* on an acyclic spec every event of the teardown of a service comes before
\* every event of the teardown of a service it depends on.
C8_DownInReverseOrder ==
    (pc = "down" \/ Returned("Down")) =>
        /\ \A i \in DOMAIN StopReturns : StopReturns[i] = ordered[Len(ordered) + 1 - i]
        /\ Returned("Down") => Len(StopReturns) = Len(ordered)
        /\ Acyclic(compose) =>
             \A n \in DOMAIN compose : \A d \in Deps(compose, n) :
                 \A p \in EventsOf(n) : \A q \in EventsOf(d) : p < q

\* Down returned after tearing down a chain of three running services.
C8_Witness ==
    /\ Returned("Down")
    /\ Acyclic(compose)
    /\ \E n \in DOMAIN compose : Cardinality(Deps(compose, n)) = 2
    /\ Cardinality(At("StopContainer")) = 3

\* C9: Down returns nil and has processed every service of the order,
\* whatever failed: for every service it found in the running-container map
\* it has called the lifecycle teardown, StopContainer and RemoveContainer,
\* and has deleted the entry.
C9_DownBestEffort ==
    Returned("Down") =>
        /\ Last.err = Nil
        /\ \A n \in Range(ordered) : \E i \in At("stopService") : log[i].svc = n
        /\ \A n \in DOMAIN atCall \cap Range(ordered) :
             /\ \E i \in At("StopService") : log[i].svc = n
             /\ CallsOn("StopContainer", n, atCall[n]) # {}
             /\ CallsOn("RemoveContainer", n, atCall[n]) # {}
             /\ n \notin DOMAIN runningServices

\* Down returned although StopContainer failed for the first service it tore
\* down and RemoveContainer failed for a later one.
C9_Witness ==
    /\ Returned("Down")
    /\ \E i \in At("StopContainer") : \E j \in At("RemoveContainer") :
         /\ ~log[i].ok /\ ~log[j].ok
         /\ log[i].svc = ordered[Len(ordered)]
         /\ log[j].svc # log[i].svc

\* C10: when Down returns after a successful Up, every service of the spec
\* has gone through its lifecycle teardown in this Down and is in phase
\* Stopped, StopContainer and RemoveContainer have been called on the
\* container Up recorded for it, and the running-container map holds no
\* service of the spec.
C10_DownAfterUp ==
    (Returned("Down") /\ Len(hist) >= 2 /\ hist[Len(hist) - 1] = [op |-> "Up", err |-> Nil]) =>
        /\ \A n \in DOMAIN compose :
             /\ n \in DOMAIN atCall
             /\ services[n].Phase = PhaseStopped
             /\ services[n].Status = "Stopped"
             /\ PhaseAt(n, PhasePreStop) # {}
             /\ PhaseAt(n, PhaseStopped) # {}
             /\ CallsOn("StopContainer", n, atCall[n]) # {}
             /\ CallsOn("RemoveContainer", n, atCall[n]) # {}
        /\ DOMAIN runningServices \cap DOMAIN compose = {}

\* Down returned after a successful Up of three services.
C10_Witness ==
    /\ Returned("Down")
    /\ Len(hist) >= 2 /\ hist[Len(hist) - 1] = [op |-> "Up", err |-> Nil]
    /\ Cardinality(DOMAIN compose) = 3
    /\ Cardinality(At("RemoveContainer")) = 3

\* C11: when the dependency graph has a cycle (a self-dependency included),
\* Up and Down return a structural error and have no side effect: no
\* ServiceState is registered, no hook is run, no backend call is made.
C11_CycleRejected ==
    ~Acyclic(compose) =>
        /\ \A i \in DOMAIN log : log[i].op \notin BackendOps \cup {"register", "ExecuteHook"}
        /\ \A i \in DOMAIN hist : hist[i].err # Nil

\* Every name of the spec: the services and the targets of dependsOn.
AllNames(svcs) == DOMAIN svcs \cup UNION { svcs[n].dependsOn : n \in DOMAIN svcs }

\* The dependsOn entries of the spec.
Edges(svcs) == { <<n, d>> \in (DOMAIN svcs) \X AllNames(svcs) : d \in svcs[n].dependsOn }

\* C12: orderServices terminates on every finite service map, cycles and
\* self-dependencies included: visit goes past its visited check at most
\* once per name, the recursion is never deeper than the number of names,
\* and the calls of visit are one per service and one per dependsOn entry.
C12_OrderServicesTerminates ==
    pc = "resolved" =>
        LET fresh == { i \in At("visit") : log[i].ok }
        IN  /\ \A i, j \in fresh : log[i].svc = log[j].svc => i = j
            /\ \A i \in fresh : log[i].cid <= Cardinality(AllNames(compose))
            /\ Len(ordered) = Cardinality(Range(ordered))
            /\ Len(log) = Cardinality(DOMAIN compose) + Cardinality(Edges(compose))

\* orderServices returned on a graph of three services with a cycle, after a
\* recursion three frames deep that met a visited name again.
C12_Witness ==
    /\ pc = "resolved"
    /\ ~Acyclic(compose)
    /\ \E i \in At("visit") : log[i].ok /\ log[i].cid = 3
    /\ \E i \in At("visit") : ~log[i].ok /\ log[i].cid = 4

\* C13: when a dependsOn names a service absent from the spec, the absent
\* name never appears in the order, and Up fails with a structural error
\* before any ServiceState is registered, any hook is run or any backend
\* call is made.
C13_AbsentDependencyRejected ==
    ~Closed(compose) =>
        /\ Range(ordered) \subseteq DOMAIN compose
        /\ pc # "panic"
        /\ \A i \in DOMAIN log : log[i].op \notin BackendOps \cup {"register", "ExecuteHook"}
        /\ \A i \in DOMAIN hist : hist[i].op = "Up" => hist[i].err # Nil

\* C14: orderServices is deterministic: every call with the same service
\* map returns the same sequence.
C14_OrderDeterministic ==
    pc = "resolved" => orderServices(compose) = {ordered}

\* The place of a phase in the fixed sequence.
PhaseRank(ph) ==
    CASE ph = PhasePreStart  -> 1
      [] ph = PhaseStart     -> 2
      [] ph = PhasePostStart -> 3
      [] ph = PhaseRunning   -> 4
      [] ph = PhasePreStop   -> 5
      [] ph = PhaseStop      -> 6
      [] ph = PhasePostStop  -> 7
      [] ph = PhaseStopped   -> 8

\* C15: whatever the sequence of calls, the ServiceState of a service is
\* created once and never re-created, and its phase only moves forward
\* along PreStart, Start, PostStart, Running, PreStop, Stop, PostStop,
\* Stopped.
C15_PhaseOnlyForward ==
    /\ \A i \in At("register") : log[i].arg = ""
    /\ \A i, j \in At("phase") :
         (i < j /\ log[i].svc = log[j].svc) => PhaseRank(log[i].arg) <= PhaseRank(log[j].arg)

\* The positions in log' of the events of the step.
NewEvents ==
    IF Len(log') > Len(log) /\ SubSeq(log', 1, Len(log)) = log
    THEN (Len(log) + 1)..Len(log')
    ELSE {}

\* C16: a StopService call for a service already in phase Stopped returns
\* success, runs no preStop or postStop hook and no post container, and
\* leaves the ServiceState as it was.
C16_StopServiceIdempotent ==
    [][ \A i \in NewEvents :
          LET n == log'[i].svc
          IN  ( /\ log'[i].op = "StopService"
                /\ n \in DOMAIN services
                /\ services[n].Phase = PhaseStopped )
              => /\ log'[i].ok
                 /\ services'[n] = services[n]
                 /\ \A j \in NewEvents :
                      log'[j].svc = n =>
                        log'[j].op \notin {"ExecuteHook", "Sleep", "executePostContainer", "phase"}
      ]_vars

\* StopService returned success, without entering PreStop, for a service
\* with teardown hooks that a rollback had already brought to Stopped.
C16_Witness ==
    /\ pc \in {"down", "idle"}
    /\ \E i \in At("StopService") :
         /\ log[i].ok
         /\ compose[log[i].svc].hooks.preStop # <<>>
         /\ PhaseAt(log[i].svc, PhasePreStop) = {}
         /\ services[log[i].svc].Phase = PhaseStopped

\* C17: when an init container of a service fails, startService returns an
\* error attributed to the init container, no further init container and no
\* main container is run for the service, and the ServiceState of the
\* service has status "Error" and is still in phase PreStart.
C17_InitFailureAborts ==
    \A i \in At("RunInitContainer") :
        ~log[i].ok =>
            LET n == log[i].svc
            IN  /\ StartReturn(n, FALSE) > i
                /\ log[StartReturn(n, FALSE)].arg = "init container failed"
                /\ \A j \in EventsOf(n) :
                     j > i => log[j].op \notin {"RunInitContainer", "CreateService", "StartContainer"}
                /\ services[n].Status = "Error"
                /\ services[n].Phase = PhasePreStart

\* The positions in log of the runs of the init containers of service name.
InitRuns(name) == { j \in At("RunInitContainer") : log[j].svc = name }

\* C18: when the main container of a service is created or started, every
\* init container of the service has been run before, once each, in
\* declaration order, and has succeeded; after a failed init container the
\* main container is not created.
C18_InitsBeforeMain ==
    LET runs == At("RunInitContainer")
    IN  /\ \A i \in DOMAIN log :
             log[i].op \in {"CreateService", "StartContainer"} =>
                 LET inits == compose[log[i].svc].initContainers
                     I     == { j \in runs : log[j].svc = log[i].svc }
                 IN  /\ Cardinality(I) = Len(inits)
                     /\ \A j \in I :
                          /\ j < i /\ log[j].ok
                          /\ log[j].arg = inits[Cardinality({ q \in I : q <= j })]
        /\ \A j \in runs :
             ~log[j].ok => \A i \in At("CreateService") : log[i].svc # log[j].svc

\* The main container of a service with two init containers was created and
\* started.
C18_Witness ==
    \E i \in At("StartContainer") :
        /\ log[i].ok
        /\ Len(compose[log[i].svc].initContainers) = 2
        /\ Cardinality(InitRuns(log[i].svc)) = 2

\* The positions in log of the invocations of the hooks of the list hooks
\* for service name.
HookRuns(name, hooks) ==
    { i \in At("ExecuteHook") : log[i].svc = name /\ \E k \in DOMAIN hooks : hooks[k].name = log[i].arg }

\* The positions in log of the calls op of the backend for service name.
BackendCalls(op, name) == { j \in At(op) : log[j].svc = name }

\* C19: in the startup of a service the preStart hooks run before the
\* container of the service is started, and the postStart hooks run only
\* after the container of the service has been created and started.
C19_HooksAroundContainerStart ==
    \A n \in DOMAIN compose :
        /\ \A i \in HookRuns(n, compose[n].hooks.preStart) :
             \A s \in BackendCalls("StartContainer", n) : i < s
        /\ \A i \in HookRuns(n, compose[n].hooks.postStart) :
             \E c \in BackendCalls("CreateService", n) :
               \E s \in BackendCalls("StartContainer", n) :
                 log[c].ok /\ log[s].ok /\ c < s /\ s < i

\* C20: in every teardown of a service, in Down and in rollback, the
\* preStop hooks run before the container of the service is stopped, and
\* the postStop hooks run only after it has been stopped.
C20_HooksAroundContainerStop ==
    \A n \in DOMAIN compose :
        /\ \A i \in HookRuns(n, compose[n].hooks.preStop) :
             \A s \in BackendCalls("StopContainer", n) : i < s
        /\ \A i \in HookRuns(n, compose[n].hooks.postStop) :
             \E s \in BackendCalls("StopContainer", n) : s < i

\* The list of hooks ExecuteHooks was called with in HookSpec.
TheHooks == compose["api"].hooks.preStart

\* The positions in log of the invocations of the k-th hook of TheHooks.
Attempts(k) == { i \in At("ExecuteHook") : log[i].arg = TheHooks[k].name }

\* The k-th hook failed on every attempt it is allowed.
GaveUp(k) ==
    /\ Cardinality(Attempts(k)) = TheHooks[k].retries + 1
    /\ \A i \in Attempts(k) : ~log[i].ok

\* C21: ExecuteHooks invokes the hooks in list order; it returns nil exactly
\* when every hook of the list succeeded within its attempts; otherwise it
\* returns the error naming the first hook that failed on all its attempts,
\* and no hook after that one has been invoked.
C21_HooksFailFast ==
    pc = "hooked" =>
        LET err == Last.err.cause
        IN  /\ \A k, l \in DOMAIN TheHooks :
                 k < l => \A i \in Attempts(k) : \A j \in Attempts(l) : i < j
            /\ err = NoErr <=> \A k \in DOMAIN TheHooks : \E i \in Attempts(k) : log[i].ok
            /\ err # NoErr =>
                 \E k \in DOMAIN TheHooks :
                   /\ err = "hook " \o TheHooks[k].name \o " failed"
                   /\ GaveUp(k)
                   /\ \A l \in DOMAIN TheHooks :
                        /\ l < k => \E i \in Attempts(l) : log[i].ok
                        /\ l > k => Attempts(l) = {}

\* ExecuteHooks returned the error of the second of three hooks, which had
\* one retry and failed twice.
C21_Witness ==
    /\ pc = "hooked"
    /\ Len(TheHooks) = 3
    /\ TheHooks[2].retries = 1
    /\ Last.err.cause = "hook h2 failed"
    /\ Cardinality(Attempts(2)) = 2

\* C22: a hook with retries n is invoked at most n+1 times, the attempts
\* are numbered from 1 and end at the first success, and the attempt k+1
\* (the k-th retry) directly follows a delay of k seconds; there is no other
\* delay.
C22_RetriesAndDelays ==
    pc = "hooked" =>
        /\ \A k \in DOMAIN TheHooks :
             /\ Cardinality(Attempts(k)) <= TheHooks[k].retries + 1
             /\ \A i \in Attempts(k) :
                  /\ log[i].cid = Cardinality({ j \in Attempts(k) : j <= i })
                  /\ log[i].ok => \A j \in Attempts(k) : j <= i
                  /\ log[i].cid > 1 =>
                       log[i - 1] = Ev("Sleep", "api", log[i].cid - 1, TheHooks[k].name, TRUE)
        /\ Cardinality(At("Sleep")) + Cardinality({ k \in DOMAIN TheHooks : Attempts(k) # {} })
             = Cardinality(At("ExecuteHook"))

\* A hook with two retries failed on attempts 1 and 2 and succeeded on
\* attempt 3: the batch succeeded after three invocations and delays of 1 s
\* and 2 s.
C22_Witness ==
    /\ pc = "hooked"
    /\ Len(TheHooks) = 1 /\ TheHooks[1].retries = 2
    /\ Last.err.cause = NoErr
    /\ [i \in 1..Len(log) |-> <<log[i].op, log[i].cid, log[i].ok>>]
         = << <<"ExecuteHook", 1, FALSE>>, <<"Sleep", 1, TRUE>>,
              <<"ExecuteHook", 2, FALSE>>, <<"Sleep", 2, TRUE>>,
              <<"ExecuteHook", 3, TRUE>> >>

\* What the lifecycle call for service name that returned at position r of
\* log did to the ServiceState it registered: the phase, status and error
\* updates, in order.
IsStateUpdate(e) == e.op \in {"phase", "status", "setError"}

StateUpdates(name, r) ==
    LET g == CHOOSE i \in At("register") : log[i].svc = name
    IN  SelectSeq(SubSeq(log, g + 1, r - 1), IsStateUpdate)

\* C26: a StartService that returns nil has registered the state (phase
\* PreStart, status "Starting") and then moved it through Start, PostStart
\* and Running, in that order and through no other phase; the status is
\* written once, to "Running", after the phase became Running.
C26_StartupPhases ==
    \A r \in At("StartService") :
        log[r].ok =>
            LET n == log[r].svc
            IN  /\ StateUpdates(n, r) = << Ev("phase", n, 0, PhaseStart, TRUE),
                                          Ev("phase", n, 0, PhasePostStart, TRUE),
                                          Ev("phase", n, 0, PhaseRunning, TRUE),
                                          Ev("status", n, 0, "Running", TRUE) >>
                /\ log[r].arg = NoErr

\* StartService returned nil for a service with hooks whose postStart hook
\* failed once and succeeded at the retry.
C26_Witness ==
    \E r \in At("StartService") :
        /\ log[r].ok
        /\ \E i \in HookRuns(log[r].svc, compose[log[r].svc].hooks.postStart) : ~log[i].ok
        /\ services[log[r].svc].Phase = PhaseRunning
        /\ services[log[r].svc].Status = "Running"

C28_InitsBeforePreStartHooks ==
    \A n \in DOMAIN compose :
        \A i \in HookRuns(n, compose[n].hooks.preStart) :
            \A k \in DOMAIN compose[n].initContainers :
                \E j \in InitRuns(n) :
                    j < i /\ log[j].ok /\ log[j].arg = compose[n].initContainers[k]

\* The failed runs, in this invocation, of the on-success post containers
\* of the services.
FailedSuccessPosts ==
    { i \in At("RunPostContainer") :
        /\ ~log[i].ok
        /\ \E k \in DOMAIN compose[log[i].svc].postContainers :
             /\ compose[log[i].svc].postContainers[k].name = log[i].arg
             /\ compose[log[i].svc].postContainers[k].onSuccess }

\* C30: when an on-success post container fails, startService still
\* returns nil for the service, which has reached phase Running and is
\* recorded in the running-container map; the failure triggers no rollback:
\* Up goes on with the next service and, when no startService fails,
\* returns nil.
C30_PostContainerFailureNotFatal ==
    \A i \in FailedSuccessPosts :
        LET n == log[i].svc
        IN  /\ StartReturn(n, TRUE) > i
            /\ \E p \in PhaseAt(n, PhaseRunning) : p < i
            /\ \E c \in At("record") : c < i /\ log[c].svc = n /\ runningServices[n] = log[c].cid
            /\ FailedStart = {} =>
                 /\ At("rollback") = {}
                 /\ pc \in {"up", "idle"}
                 /\ pc = "up" => Index(ordered, n) < idx
                 /\ pc = "idle" => Last = [op |-> "Up", err |-> Nil]

\* Up returned nil although the on-success post container of a service
\* failed, and a service after that one was started.
C30_Witness ==
    /\ Returned("Up") /\ Last.err = Nil
    /\ \E i \in FailedSuccessPosts :
         \E j \in At("CreateService") : j > i /\ log[j].ok /\ log[j].svc # log[i].svc

\* C23: a wait for the waitFor delay of a post container during which (or
\* before which) the context was cancelled ends at once, before the delay
\* has elapsed, and that post container is then not run by the backend;
\* and the backend runs no post container with a waitFor delay before a
\* wait for it has gone through the full delay.
C23_WaitForCancellable ==
    /\ \A i \in At("waitFor") :
         ~log[i].ok =>
             /\ log[i].cid = 0
             /\ \A j \in At("RunPostContainer") :
                  (j > i /\ log[j].svc = log[i].svc /\ log[j].arg = log[i].arg) => ~log[j].ok
    /\ \A j \in At("RunPostContainer") :
         (\E k \in DOMAIN compose[log[j].svc].postContainers :
            /\ compose[log[j].svc].postContainers[k].name = log[j].arg
            /\ compose[log[j].svc].postContainers[k].waitFor)
         => \E i \in At("waitFor") :
              i < j /\ log[i].svc = log[j].svc /\ log[i].arg = log[j].arg /\ log[i].cid = 1

\* C24: when the context is cancelled while Up is in progress, no service
\* whose startup begins after the cancellation is started, and Up does not
\* return nil after starting one.
C24_CancellationStopsUp ==
    \A c \in At("cancel") :
        \A g \in At("register") :
            g > c => /\ StartReturn(log[g].svc, TRUE) = 0
                     /\ ~(Returned("Up") /\ Last.err = Nil)

\* C29: a StopService call for a registered service that is not in phase
\* Stopped returns nil and leaves the service in phase Stopped with status
\* "Stopped", having moved it through PreStop, Stop and PostStop in that
\* order, whatever its hooks and the waits of its on-failure post
\* containers did, and leaves the other services alone; for a service that
\* was never registered it returns the not-found error and changes no state.
C29_StopServiceBestEffort ==
    [][ (Len(hist') = Len(hist) + 1 /\ hist'[Len(hist')].op = "StopService") =>
          LET n   == hist'[Len(hist')].err.svc
              err == hist'[Len(hist')].err.cause
          IN  /\ n \notin DOMAIN services =>
                   /\ err = "service not found"
                   /\ services' = services
                   /\ log' = << Ev("StopService", n, 0, err, FALSE) >>
              /\ (n \in DOMAIN services /\ services[n].Phase # PhaseStopped) =>
                   /\ err = NoErr
                   /\ services'[n] = [services[n] EXCEPT !.Phase = PhaseStopped, !.Status = "Stopped",
                                                         !.PostCompleted = services'[n].PostCompleted]
                   /\ SelectSeq(log', IsStateUpdate)
                        = << Ev("phase", n, 0, PhasePreStop, TRUE), Ev("phase", n, 0, PhaseStop, TRUE),
                             Ev("phase", n, 0, PhasePostStop, TRUE), Ev("phase", n, 0, PhaseStopped, TRUE) >>
                   /\ \A o \in DOMAIN services \ {n} : services'[o] = services[o]
      ]_vars

\* StopService returned nil for a service it brought to Stopped although a
\* teardown hook failed, after an earlier StopService for the then
\* unregistered service had returned the not-found error.
C29_Witness ==
    /\ Len(hist) = 3
    /\ hist[1] = [op |-> "StopService", err |-> [svc |-> Last.err.svc, cause |-> "service not found"]]
    /\ Last.op = "StopService" /\ Last.err.cause = NoErr
    /\ \E i \in At("ExecuteHook") : ~log[i].ok
    /\ services[Last.err.svc].Phase = PhaseStopped

\* C25: the map GetAllServiceStates returned is a snapshot: what the caller
\* reads under a key of it is the same after a StartService or StopService
\* call of the Manager as before, and a caller's change of the map or of
\* an element of it leaves the state the Manager tracks as it was.
C25_GetAllServiceStatesSnapshot ==
    [][ LET op == IF Len(hist') = Len(hist) + 1 THEN hist'[Len(hist')].op ELSE ""
        IN  /\ op \in {"StartService", "StopService"} =>
                 /\ DOMAIN states' = DOMAIN states
                 /\ \A k \in DOMAIN states :
                      Deref(states', services', k) = Deref(states, services, k)
            /\ op \in {"delete", "setStatus"} => services' = services
      ]_vars

\* C31: ExecuteHooksWithResults returns one HookResult per hook it invoked,
\* in list order, with Success true exactly when the invocation returned no
\* error; every hook is invoked once; the batch goes on after a failing
\* hook with a non-zero retry count and ends after the first failing hook
\* with retry count zero.
C31_HookResults ==
    pc = "reported" =>
        LET res == Last.results
        IN  /\ Len(res) = Len(log) /\ Len(res) <= Len(TheHooks)
            /\ \A i \in DOMAIN res :
                 /\ res[i].HookName = TheHooks[i].name
                 /\ log[i] = Ev("ExecuteHook", "api", 1, TheHooks[i].name, res[i].Success)
                 /\ res[i].Success <=> res[i].Error = NoErr
                 /\ i < Len(res) => (res[i].Success \/ TheHooks[i].retries # 0)
            /\ Len(res) < Len(TheHooks) =>
                 ~res[Len(res)].Success /\ TheHooks[Len(res)].retries = 0

\* Of three hooks the first, with retries, failed and the second, without,
\* failed too: two results, the third hook was not invoked.
C31_Witness ==
    /\ pc = "reported"
    /\ Len(TheHooks) = 3 /\ Len(Last.results) = 2
    /\ TheHooks[1].retries > 0 /\ ~Last.results[1].Success
    /\ TheHooks[2].retries = 0 /\ ~Last.results[2].Success

\* C33: no step of Up or of its rollback removes a key from the
\* running-container map; a key is added only by Up's start loop, for a
\* service whose container was started, every service whose container was
\* started in Up is recorded with that container, and a key is removed only
\* by Down's teardown of that service.
C33_RunningMapPrunedOnlyByDown ==
    [][ LET gone == DOMAIN runningServices \ DOMAIN runningServices'
            new  == DOMAIN runningServices' \ DOMAIN runningServices
        IN  /\ gone # {} => pc = "down" /\ gone = {downOrder(ordered)[idx]}
            /\ new # {} =>
                 /\ pc = "up"
                 /\ \A n \in new :
                      \E i \in NewEvents :
                        log'[i] = Ev("StartContainer", n, runningServices'[n], "", TRUE)
            /\ pc = "up" =>
                 \A i \in NewEvents :
                   (log'[i].op = "StartContainer" /\ log'[i].ok) =>
                     /\ log'[i].svc \in DOMAIN runningServices'
                     /\ runningServices'[log'[i].svc] = log'[i].cid
      ]_vars

\* Up has returned an error after a rollback that stopped and removed the
\* container of a started service, and the service is still in the map.
C33_Witness ==
    /\ Returned("Up") /\ Last.err # Nil
    /\ \E i \in At("rollback") :
         /\ log[i].svc \in DOMAIN runningServices
         /\ runningServices[log[i].svc] = log[i].cid
         /\ containers[log[i].cid] = "removed"

\* C34: a service whose ServiceState is in phase Running is recorded in the
\* running-container map with a container that has been created and
\* started; so a service whose init container, container creation or
\* container start failed is not in phase Running.
C34_RunningMeansContainerStarted ==
    \A n \in DOMAIN services :
        services[n].Phase = PhaseRunning =>
            /\ n \in DOMAIN runningServices
            /\ containers[runningServices[n]] = "running"

\* C35: every entry of the running-container map names a container that
\* has been started and has not been removed, and no StopContainer or
\* RemoveContainer call of a Down or a rollback is made on a container
\* that had been removed before that teardown began.
C35_RunningMapNamesLiveContainers ==
    [][ /\ \A n \in DOMAIN runningServices' :
             containers'[runningServices'[n]] \in {"running", "stopped"}
        /\ pc \in {"down", "rollback"} =>
             \A i \in NewEvents :
               log'[i].op \in {"StopContainer", "RemoveContainer"} =>
                 containers[log'[i].cid] # "removed"
      ]_vars

\* C36: Up creates no container for a service that the running-container
\* map records with a container that has not been removed, and the
\* recorded container of a service is replaced only when it has been
\* removed: a service has at most one live main container.
C36_OneLiveContainerPerService ==
    [][ /\ \A i \in NewEvents :
             ( /\ log'[i].op = "CreateService" /\ log'[i].ok
               /\ log'[i].svc \in DOMAIN runningServices )
             => containers[runningServices[log'[i].svc]] = "removed"
        /\ \A n \in DOMAIN runningServices \cap DOMAIN runningServices' :
             runningServices'[n] # runningServices[n]
             => containers[runningServices[n]] = "removed"
      ]_vars

\* C37: when Up has returned an error and every StopContainer and
\* RemoveContainer call of that Up succeeded, no container created during
\* that Up is live: a container whose StartContainer failed was removed
\* and never recorded, and the containers of the services started before
\* were removed by rollback.
C37_FailedUpLeavesNoContainer ==
    (Returned("Up") /\ Last.err # Nil) =>
        LET tear == { i \in DOMAIN log : log[i].op \in {"StopContainer", "RemoveContainer"} }
            made == { i \in DOMAIN log : log[i].op = "CreateService" /\ log[i].ok }
        IN  (\A i \in tear : log[i].ok) =>
                \A c \in made :
                    /\ containers[log[c].cid] = "removed"
                    /\ (\E s \in At("StartContainer") : log[s].cid = log[c].cid /\ ~log[s].ok)
                         => \A k \in At("record") : log[k].cid # log[c].cid

\* Up returned the error of a failed StartContainer after a rollback of an
\* earlier service, with every teardown call successful.
C37_Witness ==
    /\ Returned("Up") /\ Last.err # Nil
    /\ \E s \in At("StartContainer") : ~log[s].ok
    /\ At("rollback") # {}
    /\ \A i \in At("StopContainer") \cup At("RemoveContainer") : log[i].ok

C40_WaitForWaitedOnce ==
    \A i \in At("RunPostContainer") :
        LET n    == log[i].svc
            post == { k \in DOMAIN compose[n].postContainers :
                        compose[n].postContainers[k].name = log[i].arg }
        IN  (\E k \in post : compose[n].postContainers[k].onSuccess
                             /\ compose[n].postContainers[k].waitFor)
            => Cardinality({ j \in At("waitFor") :
                               j < i /\ log[j].svc = n /\ log[j].arg = log[i].arg /\ log[j].ok }) = 1

\* The accesses of two threads conflict when they are to the same field and
\* one of them is a write.
Access(t) == Instr(t).op \in {"read", "write"}

Locked(t) ==
    IF Instr(t).op = "write" THEN mu.writer = t
    ELSE mu.writer = t \/ t \in mu.readers

\* C32: a thread that is about to read or write the ServiceState map or a
\* ServiceState field holds mu (for writing when it writes), so no two
\* threads are ever about to access the same field with one of them
\* writing.
C32_AccessesUnderLock ==
    /\ \A t \in Threads : Access(t) => Locked(t)
    /\ \A t, u \in Threads :
         (t # u /\ Access(t) /\ Access(u) /\ Instr(t).field = Instr(u).field)
         => Instr(t).op = "read" /\ Instr(u).op = "read"

\* C39: with StopService calls for the same running service in flight at
\* the same time, the preStop hooks and the postStop hooks are each
\* executed by at most one of the calls, and no step moves the phase of the
\* service backwards.
C39_ConcurrentStopService ==
    [][ /\ PhaseRank(services'["api"].Phase) >= PhaseRank(services["api"].Phase)
        /\ \A slot \in {"preStop", "postStop"} :
             Cardinality({ log'[i].cid : i \in { j \in DOMAIN log' :
                             log'[j].op = "hooks" /\ log'[j].arg = slot } }) <= 1
      ]_vars

====
